---- MODULE Spec2Model ----
(***************************************************************************)
(* Verification model of mcpmydocs: the DuckDB-backed vector store         *)
(* (internal/store), the search service (internal/search) and the bulk     *)
(* indexing flow (cmd/index.go), the tokenizers of the embedder and the    *)
(* reranker, and the start of the ONNX runtime.                            *)
(*                                                                         *)
(* Six specifications share the variables:                                 *)
(*   Spec         - callers of the Store API, one SQL statement per step   *)
(*   SpecSearch   - Service.Search over a populated store                  *)
(*   SpecIndex    - processFiles: one worker goroutine per file            *)
(*   SpecTokenize - Embedder.tokenize applied to a batch of texts          *)
(*   SpecPairs    - Reranker.tokenizePairs applied to a query and a passage*)
(*   SpecRuntime  - goroutines calling embedder.New and reranker.New       *)
(***************************************************************************)
EXTENDS Integers, Sequences, FiniteSets, TLC

(***************************************************************************)
(* Bounds                                                                  *)
(***************************************************************************)
\* values handed out by documents_id_seq / chunks_id_seq before the model stops
MaxDocSeq == 2
MaxChunkSeq == 2
\* width of an embedding column in the model (FLOAT[384] in the schema)
Dim == 2

Paths == {"a.md", "b.md"}
Hashes == {"h1", "h2"}

(***************************************************************************)
(* Floats: finite values are integers; NaN and the infinities are codes.   *)
(***************************************************************************)
NaN == 7777
PosInf == 8888
NegInf == -8888

IsNaN(f) == f = NaN
IsInf(f) == f = PosInf \/ f = NegInf

\* the i-th axis unit vector, scaled by s (s = 1 or -1): a unit-norm embedding
UnitVec(i, s) == [k \in 1..Dim |-> IF k = i THEN s ELSE 0]

\* mutant: components are written as they are
floatSliceToArrayString_Raw(v) == v

\* floatSliceToArrayString followed by DuckDB's parse of the literal: every
\* finite component survives the %g round trip, NaN and +-Inf are written "0".
\* (The empty slice is handled by the callers, which pass SQL NULL.)
floatSliceToArrayString(v) ==
    [k \in 1..Len(v) |-> IF IsNaN(v[k]) \/ IsInf(v[k]) THEN 0 ELSE v[k]]

\* SQL NULL in the embedding column
NULL == <<>>

\* the ?::FLOAT[384] cast: NULL stays NULL, any other width than the column's fails
CastOK(param) == param = NULL \/ Len(param) = Dim

\* embeddingParam of InsertChunk / InsertChunks
EmbeddingParam(embedding) ==
    IF Len(embedding) > 0 THEN floatSliceToArrayString(embedding) ELSE NULL

RECURSIVE DotFrom(_, _, _)
DotFrom(a, b, k) == IF k > Len(a) THEN 0 ELSE a[k] * b[k] + DotFrom(a, b, k + 1)

\* array_cosine_distance on unit-norm vectors: 1 - a.b  (0 same direction, 2 opposite)
CosineDistance(a, b) == 1 - DotFrom(a, b, 1)

(***************************************************************************)
(* Inputs                                                                  *)
(***************************************************************************)
\* passages offered to the store: text and the vector computed for it
ChunkInputs ==
    { [content |-> "x", emb |-> UnitVec(1, 1)],
      [content |-> "y", emb |-> [k \in 1..Dim |-> IF k = 1 THEN NaN ELSE IF k = 2 THEN 1 ELSE 0]],
      [content |-> "y", emb |-> [k \in 1..Dim |-> IF k = 1 THEN PosInf ELSE IF k = 2 THEN 1 ELSE 0]],
      [content |-> "y", emb |-> [k \in 1..Dim |-> IF k = 1 THEN NegInf ELSE IF k = 2 THEN 1 ELSE 0]],
      [content |-> "n", emb |-> <<>>],
      [content |-> "w", emb |-> [k \in 1..(Dim + 1) |-> 0]] }

\* a vector has a component that is NaN or an infinity
HasSpecial(v) == \E k \in 1..Len(v) : IsNaN(v[k]) \/ IsInf(v[k])

QueryVectors == { UnitVec(1, 1), UnitVec(2, -1) }

VARIABLES
    documents,   \* rows of table documents: [id, path, hash]
    chunks,      \* committed rows of table chunks: [id, docId, content, emb]
    docSeq,      \* last value of documents_id_seq
    chunkSeq,    \* last value of chunks_id_seq
    deleted,     \* ghost: paths whose delete returned nil and that were not inserted since
    pc,          \* writer handle: position inside a multi-statement store call
    loc,         \* writer handle: locals of the call in progress
    ret,         \* the call that returned last, with its result
    hasReranker, \* search.Service: the reranker field is not nil
    result,      \* search.Service: what the last Search call returned
    w,           \* processFiles: per file, the goroutine running processFile
    ctxDone,     \* processFiles: the errgroup's context has been cancelled
    texts,       \* Embedder.tokenize: the batch of texts given to it
    encoded,     \* Embedder.tokenize: the input ids and the attention mask it returned
    ort,         \* the process: both packages' ortOnce, ortInitErr, the ONNX runtime
    ctor         \* the process: per goroutine, the call of embedder.New or reranker.New

apiVars == <<deleted, pc, loc, ret>>
svcVars == <<hasReranker, result>>
idxVars == <<w, ctxDone>>
tokVars == <<texts, encoded>>
ortVars == <<ort, ctor>>
vars == <<documents, chunks, docSeq, chunkSeq, deleted, pc, loc, ret,
          hasReranker, result, w, ctxDone, texts, encoded, ort, ctor>>

\* nothing tokenized yet
NoEncoding == [ids |-> <<>>, mask |-> <<>>]

\* the process at its start: neither sync.Once has run, ortInitErr is nil, the
\* runtime environment is not initialized; inits counts the executions of
\* ort.InitializeEnvironment, sessions the sessions created
NoRuntime ==
    [once |-> [embedder |-> "new", reranker |-> "new"], ortInitErr |-> FALSE,
     initialized |-> FALSE, inits |-> 0, sessions |-> 0]

(***************************************************************************)
(* Store: pure parts of the SQL statements                                 *)
(***************************************************************************)
Min(a, b) == IF a < b THEN a ELSE b

\* SELECT COUNT(*) FROM documents WHERE file_path = ? AND file_hash = ?
CountDocuments(docs, path, hash) ==
    Cardinality({d \in docs : d.path = path /\ d.hash = hash})

\* mutant: the hash comparison never matches
FileUnchanged_Never(docs, path, hash, queryErr) == FALSE

\* FileUnchanged: err == nil && count > 0
FileUnchanged(docs, path, hash, queryErr) ==
    (~queryErr) /\ CountDocuments(docs, path, hash) > 0

\* mutant: the documents table without its UNIQUE constraint
UniqueViolation_NoConstraint(docs, path) == FALSE

\* the UNIQUE constraint on documents.file_path
UniqueViolation(docs, path) == \E d \in docs : d.path = path

\* SELECT id FROM documents WHERE file_path = ?   (0 stands for sql.ErrNoRows)
SelectDocID(docs, path) ==
    IF \E d \in docs : d.path = path THEN (CHOOSE d \in docs : d.path = path).id ELSE 0

\* DELETE FROM chunks WHERE document_id = ?
DeleteChunksOf(chs, docID) == {c \in chs : c.docId # docID}

\* mutant: the document row is left behind, only its chunks go
DeleteDocumentRow_KeepsRow(docs, docID) == docs

\* DELETE FROM documents WHERE id = ?
DeleteDocumentRow(docs, docID) == {d \in docs : d.id # docID}

\* one row of INSERT INTO chunks (...) VALUES (...), id from chunks_id_seq
ChunkRow(id, docID, input) ==
    [id |-> id, docId |-> docID, content |-> input.content,
     emb |-> EmbeddingParam(input.emb)]

\* what a statement outside a transaction reads: only committed rows; rows
\* written through an open sql.Tx stay private to it until tx.Commit()
VisibleChunks(committed, txRows) == committed

\* tx.Commit()
CommitRows(committed, txRows) == committed \cup txRows

\* mutant: rows executed before the error stay in the table
RollbackRows_KeepsRows(committed, txRows) == committed \cup txRows

\* the deferred tx.Rollback() after an error
RollbackRows(committed, txRows) == committed

(***************************************************************************)
(* Store.Search                                                            *)
(***************************************************************************)
\* FROM chunks c JOIN documents d ON c.document_id = d.id, with the distance column
JoinRows(docs, chs, q) ==
    { [chunkId |-> c.id, path |-> d.path, content |-> c.content,
       isNull |-> (c.emb = NULL \/ q = NULL),
       distance |-> IF c.emb = NULL \/ q = NULL THEN 0 ELSE CosineDistance(c.emb, q)]
      : <<c, d>> \in {cd \in chs \X docs : cd[1].docId = cd[2].id} }

\* mutant: ORDER BY distance DESC
Before_Descending(r, o) ==
    \/ r = o
    \/ (~r.isNull) /\ o.isNull
    \/ r.isNull = o.isNull /\ r.distance > o.distance
    \/ r.isNull = o.isNull /\ r.distance = o.distance /\ r.chunkId < o.chunkId

\* ORDER BY distance ASC: NULL distances sort last; rows with equal distance
\* are kept in chunk id order
Before(r, o) ==
    \/ r = o
    \/ (~r.isNull) /\ o.isNull
    \/ r.isNull = o.isNull /\ r.distance < o.distance
    \/ r.isNull = o.isNull /\ r.distance = o.distance /\ r.chunkId < o.chunkId

RECURSIVE OrderByDistance(_)
OrderByDistance(rows) ==
    IF rows = {} THEN <<>>
    ELSE LET first == CHOOSE r \in rows : \A o \in rows : Before(r, o)
         IN  <<first>> \o OrderByDistance(rows \ {first})

\* LIMIT ?
Limit(rows, k) == SubSeq(rows, 1, Min(k, Len(rows)))

\* Store.Search: limit <= 0 is rejected; the query vector goes through
\* floatSliceToArrayString and the FLOAT[384] cast; scanning a NULL distance
\* into a float64 fails the call
Search(docs, chs, queryEmbedding, limit, queryErr) ==
    LET q    == EmbeddingParam(queryEmbedding)
        rows == Limit(OrderByDistance(JoinRows(docs, chs, q)), limit)
    IN  IF limit <= 0 \/ queryErr \/ ~CastOK(q)
          THEN [err |-> TRUE, rows |-> <<>>]
        ELSE IF \E i \in 1..Len(rows) : rows[i].isNull
          THEN [err |-> TRUE, rows |-> <<>>]
        ELSE [err |-> FALSE, rows |-> rows]

(***************************************************************************)
(* Spec: callers of the Store API.  The store has one writer handle        *)
(* (store.New) and read-only handles (store.NewReadOnly).  On the writer   *)
(* handle every SQL statement of a call is one step and may fail (I/O      *)
(* error, cancelled context: stmtErr, queryErr).  On a read-only handle    *)
(* the engine refuses every write statement (its stmtErr is always TRUE),  *)
(* so a call through it never changes the store and is one step.  Reads run at any moment, also between two statements of   *)
(* the writer.                                                             *)
(***************************************************************************)
Handles == {"rw", "ro"}
ReadOnly(h) == h = "ro"

NoLoc == [docID |-> 0, path |-> "", hadChunks |-> FALSE, todo |-> <<>>, buf |-> {}, size |-> 0]

\* batches offered to InsertChunks: n rows, the last one of the wrong width when bad
MaxBatch == 2
BatchOf(bad, n) ==
    [i \in 1..n |->
        IF bad /\ i = n THEN [content |-> "w", emb |-> [k \in 1..(Dim + 1) |-> 0]]
        ELSE IF i % 2 = 1 THEN [content |-> "x", emb |-> UnitVec(1, 1)]
        ELSE [content |-> "y", emb |-> [k \in 1..Dim |-> IF k = 1 THEN NaN ELSE IF k = 2 THEN 1 ELSE 0]]]
Batches == {BatchOf(bad, n) : bad \in BOOLEAN, n \in 0..MaxBatch}

\* no returned result is waiting for its caller: calls are synchronous, the
\* caller has the result of one call before the next statement runs
Ready == ret.op = "none"

\* the writer handle is free to start a call
Free(h) == h = "rw" => pc = "idle"

Init ==
    /\ documents = {}
    /\ chunks = {}
    /\ docSeq = 0
    /\ chunkSeq = 0
    /\ deleted = {}
    /\ pc = "idle"
    /\ loc = NoLoc
    /\ ret = [op |-> "none"]
    /\ hasReranker = FALSE
    /\ result = [op |-> "none"]
    /\ w = <<>>
    /\ ctxDone = FALSE
    /\ texts = <<>>
    /\ encoded = NoEncoding
    /\ ort = NoRuntime
    /\ ctor = <<>>

\* Store.FileUnchanged
FileUnchangedCall ==
    /\ Ready
    /\ \E path \in Paths, hash \in Hashes, queryErr \in BOOLEAN :
         ret' = [op |-> "FileUnchanged",
                 result |-> FileUnchanged(documents, path, hash, queryErr),
                 existed |-> \E d \in documents : d.path = path /\ d.hash = hash]
    /\ UNCHANGED <<documents, chunks, docSeq, chunkSeq, deleted, pc, loc>>
    /\ UNCHANGED <<svcVars, idxVars, tokVars, ortVars>>

\* Store.Search
StoreSearchCall ==
    /\ Ready
    /\ \E q \in QueryVectors, k \in 0..(MaxChunkSeq + 1) : \E queryErr \in {FALSE, k = 1} :
         LET r == Search(documents, VisibleChunks(chunks, loc.buf), q, k, queryErr)
         IN  ret' = [op |-> "Search", err |-> r.err]
    /\ UNCHANGED <<documents, chunks, docSeq, chunkSeq, deleted, pc, loc>>
    /\ UNCHANGED <<svcVars, idxVars, tokVars, ortVars>>

\* Store.InsertDocument
InsertDocumentCall(h) ==
    /\ Ready
    /\ Free(h)
    /\ docSeq < MaxDocSeq
    /\ \E path \in Paths, hash \in Hashes, stmtErr \in {ReadOnly(h), TRUE} :
         LET err == stmtErr \/ UniqueViolation(documents, path)
         IN  /\ documents' = IF err THEN documents
                             ELSE documents \cup {[id |-> docSeq + 1, path |-> path, hash |-> hash]}
             /\ docSeq' = IF err THEN docSeq ELSE docSeq + 1
             /\ deleted' = IF err THEN deleted ELSE deleted \ {path}
             /\ ret' = [op |-> "InsertDocument", err |-> err, ro |-> ReadOnly(h),
                        existed |-> \E d \in documents : d.path = path]
    /\ UNCHANGED <<chunks, chunkSeq, pc, loc>>
    /\ UNCHANGED <<svcVars, idxVars, tokVars, ortVars>>

\* Store.InsertChunk
InsertChunkCall(h) ==
    /\ Ready
    /\ Free(h)
    /\ chunkSeq < MaxChunkSeq
    /\ \E docID \in 1..MaxDocSeq, input \in ChunkInputs, stmtErr \in {ReadOnly(h), TRUE} :
         LET row == ChunkRow(chunkSeq + 1, docID, input)
             err == stmtErr \/ ~CastOK(row.emb)
         IN  /\ chunks' = IF err THEN chunks ELSE chunks \cup {row}
             /\ chunkSeq' = IF err THEN chunkSeq ELSE chunkSeq + 1
             /\ ret' = [op |-> "InsertChunk", err |-> err, ro |-> ReadOnly(h),
                        fault |-> stmtErr, width |-> Len(input.emb),
                        special |-> HasSpecial(input.emb)]
    /\ UNCHANGED <<documents, docSeq, deleted, pc, loc>>
    /\ UNCHANGED <<svcVars, idxVars, tokVars, ortVars>>

\* Store.DeleteDocumentByPath, first statement: SELECT id.  Without a row the
\* call returns nil; on a read-only handle the DELETE that follows is refused.
DeleteSelect(h) ==
    /\ Ready
    /\ Free(h)
    /\ \E path \in Paths, queryErr \in BOOLEAN :
         LET docID == SelectDocID(documents, path)
         IN  IF queryErr \/ docID = 0 \/ ReadOnly(h)
               THEN /\ ret' = [op |-> "DeleteDocumentByPath", had |-> FALSE,
                               err |-> (queryErr \/ docID # 0), ro |-> ReadOnly(h)]
                    /\ deleted' = IF queryErr \/ docID # 0 THEN deleted ELSE deleted \cup {path}
                    /\ UNCHANGED <<pc, loc>>
               ELSE /\ pc' = "delete_chunks"
                    /\ loc' = [NoLoc EXCEPT !.docID = docID, !.path = path]
                    /\ UNCHANGED <<ret, deleted>>
    /\ UNCHANGED <<documents, chunks, docSeq, chunkSeq>>
    /\ UNCHANGED <<svcVars, idxVars, tokVars, ortVars>>

\* Store.DeleteDocumentByPath, second statement: DELETE FROM chunks
DeleteChunksStmt ==
    /\ Ready
    /\ pc = "delete_chunks"
    /\ \E stmtErr \in BOOLEAN :
         IF stmtErr
           THEN /\ ret' = [op |-> "DeleteDocumentByPath", had |-> FALSE, err |-> TRUE, ro |-> FALSE]
                /\ pc' = "idle"
                /\ loc' = NoLoc
                /\ UNCHANGED chunks
           ELSE /\ chunks' = DeleteChunksOf(chunks, loc.docID)
                /\ loc' = [loc EXCEPT !.hadChunks = (chunks' # chunks)]
                /\ pc' = "delete_document"
                /\ UNCHANGED ret
    /\ UNCHANGED <<documents, docSeq, chunkSeq, deleted>>
    /\ UNCHANGED <<svcVars, idxVars, tokVars, ortVars>>

\* Store.DeleteDocumentByPath, third statement: DELETE FROM documents
DeleteDocumentStmt ==
    /\ Ready
    /\ pc = "delete_document"
    /\ \E stmtErr \in BOOLEAN :
         /\ documents' = IF stmtErr THEN documents
                         ELSE DeleteDocumentRow(documents, loc.docID)
         /\ ret' = [op |-> "DeleteDocumentByPath", had |-> loc.hadChunks,
                    err |-> stmtErr, ro |-> FALSE]
         /\ deleted' = IF stmtErr THEN deleted ELSE deleted \cup {loc.path}
    /\ pc' = "idle"
    /\ loc' = NoLoc
    /\ UNCHANGED <<chunks, docSeq, chunkSeq>>
    /\ UNCHANGED <<svcVars, idxVars, tokVars, ortVars>>

\* Store.InsertChunks up to the first row: the count check, the empty batch,
\* BeginTx and PrepareContext.  On a read-only handle the INSERT is refused.
\* embeddings is the batch's vectors, one short when the counts mismatch.
InsertChunksBegin(h) ==
    /\ Ready
    /\ Free(h)
    /\ \E batch \in Batches :
         /\ chunkSeq + Len(batch) <= MaxChunkSeq
         /\ \/ /\ Len(batch) > 0     \* len(chunks) != len(embeddings)
               /\ ret' = [op |-> "InsertChunks", err |-> TRUE, ro |-> ReadOnly(h), rows |-> 0]
               /\ UNCHANGED <<pc, loc>>
            \/ /\ Len(batch) = 0     \* len(chunks) == 0
               /\ ret' = [op |-> "InsertChunks", err |-> FALSE, ro |-> ReadOnly(h), rows |-> 0]
               /\ UNCHANGED <<pc, loc>>
            \/ /\ Len(batch) > 0
               /\ \E docID \in 1..MaxDocSeq, beginErr \in {ReadOnly(h), TRUE} :
                    IF beginErr
                      THEN /\ ret' = [op |-> "InsertChunks", err |-> TRUE, ro |-> ReadOnly(h), rows |-> 0]
                           /\ UNCHANGED <<pc, loc>>
                      ELSE /\ pc' = "tx_exec"
                           /\ loc' = [NoLoc EXCEPT !.docID = docID, !.todo = batch,
                                                   !.size = Len(batch)]
                           /\ UNCHANGED ret
    /\ UNCHANGED <<documents, chunks, docSeq, chunkSeq, deleted>>
    /\ UNCHANGED <<svcVars, idxVars, tokVars, ortVars>>

\* Store.InsertChunks: stmt.ExecContext for the next row inside the transaction
InsertChunksExec ==
    /\ Ready
    /\ pc = "tx_exec"
    /\ \E stmtErr \in BOOLEAN :
         LET row == ChunkRow(chunkSeq + 1, loc.docID, Head(loc.todo))
             err == stmtErr \/ ~CastOK(row.emb)
         IN  IF err
               THEN /\ chunks' = RollbackRows(chunks, loc.buf)
                    /\ ret' = [op |-> "InsertChunks", err |-> TRUE, ro |-> FALSE,
                               rows |-> Cardinality(loc.buf), fault |-> stmtErr]
                    /\ pc' = "idle"
                    /\ loc' = NoLoc
                    /\ UNCHANGED chunkSeq
               ELSE /\ chunkSeq' = chunkSeq + 1
                    /\ loc' = [loc EXCEPT !.buf = @ \cup {row}, !.todo = Tail(@)]
                    /\ pc' = IF Len(loc.todo) = 1 THEN "tx_commit" ELSE "tx_exec"
                    /\ UNCHANGED <<chunks, ret>>
    /\ UNCHANGED <<documents, docSeq, deleted>>
    /\ UNCHANGED <<svcVars, idxVars, tokVars, ortVars>>

\* Store.InsertChunks: tx.Commit()
InsertChunksCommit ==
    /\ Ready
    /\ pc = "tx_commit"
    /\ \E commitErr \in BOOLEAN :
         /\ chunks' = IF commitErr THEN RollbackRows(chunks, loc.buf)
                      ELSE CommitRows(chunks, loc.buf)
         /\ ret' = [op |-> "InsertChunks", err |-> commitErr, ro |-> FALSE,
                    rows |-> Cardinality(loc.buf)]
    /\ pc' = "idle"
    /\ loc' = NoLoc
    /\ UNCHANGED <<documents, docSeq, chunkSeq, deleted>>
    /\ UNCHANGED <<svcVars, idxVars, tokVars, ortVars>>

\* the caller takes the result of the call that returned
TakeResult ==
    /\ ~Ready
    /\ ret' = [op |-> "none"]
    /\ UNCHANGED <<documents, chunks, docSeq, chunkSeq, deleted, pc, loc>>
    /\ UNCHANGED <<svcVars, idxVars, tokVars, ortVars>>

Next ==
    \/ FileUnchangedCall
    \/ StoreSearchCall
    \/ \E h \in Handles : InsertDocumentCall(h)
    \/ \E h \in Handles : InsertChunkCall(h)
    \/ \E h \in Handles : DeleteSelect(h)
    \/ DeleteChunksStmt
    \/ DeleteDocumentStmt
    \/ \E h \in Handles : InsertChunksBegin(h)
    \/ InsertChunksExec
    \/ InsertChunksCommit
    \/ TakeResult

Spec == Init /\ [][Next]_vars

(***************************************************************************)
(* Properties of the Store API (checked under Spec)                        *)
(***************************************************************************)
InTx == pc \in {"tx_exec", "tx_commit"}
MutationOps == {"InsertDocument", "InsertChunk", "InsertChunks", "DeleteDocumentByPath"}

\* C3: DeleteDocumentByPath is atomic - no observer sees the document of a
\* path still present while the delete has already removed its passages.
C3_DeleteAtomic ==
    (pc = "delete_document" /\ loc.hadChunks) =>
        ~(\E d \in documents : d.id = loc.docID)

\* C4: InsertChunks is all-or-nothing - a count mismatch, a failed row or a
\* failed commit leaves none of the batch in the table, a successful commit
\* adds the whole batch in one step, and while the transaction is open no
\* reader sees any of its rows.
C4_InsertChunksAllOrNothing ==
    /\ [](InTx => VisibleChunks(chunks, loc.buf) \cap loc.buf = {})
    /\ [][ /\ (InTx /\ pc' = "idle" /\ ret'.err) =>
                 (chunks' = chunks /\ chunks' \cap loc.buf = {})
           /\ (InTx /\ pc' = "idle" /\ ~ret'.err) =>
                 (chunks' \ chunks = loc.buf /\ Cardinality(loc.buf) = loc.size)
           /\ (InTx /\ pc' # "idle") => chunks' = chunks
           /\ (pc = "idle" /\ pc' = "idle" /\ ret' # ret /\ ret'.op = "InsertChunks") =>
                 chunks' = chunks ]_vars

\* C4 witness: an InsertChunks call failed after at least one row of its
\* batch had been executed in the transaction.
C4_Witness ==
    ret.op = "InsertChunks" /\ ret.err /\ ret.rows > 0 /\ ~ret.ro /\ chunks # {}

\* C5: InsertDocument on a path that already has a document returns an error
\* and changes nothing, so no two documents ever share a path.
C5_InsertDocumentUnique ==
    /\ [](\A d1, d2 \in documents : d1.path = d2.path => d1 = d2)
    /\ [][ (ret' # ret /\ ret'.op = "InsertDocument" /\ ret'.existed) =>
               (ret'.err /\ documents' = documents /\ chunks' = chunks
                         /\ docSeq' = docSeq) ]_vars

\* C5 witness: the writer handle's InsertDocument was refused for a path that
\* is in the table.
C5_Witness ==
    ret.op = "InsertDocument" /\ ret.existed /\ ~ret.ro /\ ret.err /\ documents # {}

\* C6: FileUnchanged returns true exactly when a document with that
\* (path, hash) pair exists at the time of the call.
C6_FileUnchangedIff ==
    ret.op = "FileUnchanged" => (ret.result <=> ret.existed)

\* C7: once DeleteDocumentByPath(p) has returned nil, and until p is inserted
\* again, Search returns no row of p for any query vector and positive k,
\* and FileUnchanged(p, h) is false for every hash.
C7_DeletedPathGone ==
    deleted # {} =>
        /\ \A p \in deleted, h \in Hashes, queryErr \in BOOLEAN :
             ~FileUnchanged(documents, p, h, queryErr)
        /\ \A q \in QueryVectors, k \in 1..(MaxChunkSeq + 1) :
             LET rows == Search(documents, VisibleChunks(chunks, loc.buf), q, k, FALSE).rows
             IN  \A i \in 1..Len(rows) : rows[i].path \notin deleted

\* C7 witness: a delete that removed a document together with its passages has
\* returned nil while passages of another document are still searchable.
C7_Witness ==
    /\ ret.op = "DeleteDocumentByPath" /\ ~ret.err /\ ret.had
    /\ deleted # {}
    /\ \E q \in QueryVectors : Search(documents, chunks, q, 1, FALSE).rows # <<>>

\* C8: through a read-only handle every mutation call returns an error.
C8_ReadOnlyRefuses ==
    (ret.op \in MutationOps /\ ret.ro) => ret.err

\* C12: for any store state, query vector and positive k, the rows Search
\* returns have non-decreasing distances from the first to the last.
C12_SearchOrdered ==
    \A q \in QueryVectors, k \in 1..(MaxChunkSeq + 1) :
        LET r == Search(documents, VisibleChunks(chunks, loc.buf), q, k, FALSE)
        IN  ~r.err =>
              \A i \in 1..(Len(r.rows) - 1) : r.rows[i].distance <= r.rows[i + 1].distance

\* C12 witness: a Search has returned without error over a store from which
\* some query gets two rows at different distances.
C12_Witness ==
    /\ ret.op = "Search" /\ ~ret.err
    /\ \E q \in QueryVectors :
         LET r == Search(documents, chunks, q, 2, FALSE)
         IN  ~r.err /\ Len(r.rows) = 2 /\ r.rows[1].distance < r.rows[2].distance

\* C13: Search with a positive k over a store holding N passages returns
\* exactly min(k, N) rows and no error.
C13_SearchCount ==
    \A q \in QueryVectors, k \in 1..(MaxChunkSeq + 1) :
        LET r == Search(documents, VisibleChunks(chunks, loc.buf), q, k, FALSE)
        IN  ~r.err /\ Len(r.rows) = Min(k, Cardinality(chunks))

(***************************************************************************)
(* search.Service                                                          *)
(***************************************************************************)
DefaultLimit == 5
MaxLimit == 20
MinLimit == 1
DefaultCandidates == 50
MaxCandidates == 100
MinCandidates == 1

\* passages in the store of SpecSearch
MaxPassages == 3

\* mutant: no upper limit
clamp_NoMax(val, min, max, defaultVal) ==
    IF val = 0 THEN defaultVal
    ELSE IF val < min THEN min
    ELSE val

clamp(val, min, max, defaultVal) ==
    IF val = 0 THEN defaultVal
    ELSE IF val < min THEN min
    ELSE IF val > max THEN max
    ELSE val

\* mutant: rerank = true forces the reranker whether or not one is loaded
UseRerank_Forced(rerank, loaded) ==
    IF rerank = "nil" THEN loaded ELSE rerank = "true"

\* useRerank: nil = auto, otherwise *p.Rerank && s.reranker != nil
UseRerank(rerank, loaded) ==
    IF rerank = "nil" THEN loaded ELSE (rerank = "true" /\ loaded)

\* mutant: the limit is fetched whether or not reranking is active
FetchCount_AlwaysLimit(limit, candidates, useRerank) == limit

\* fetchCount
FetchCount(limit, candidates, useRerank) == IF useRerank THEN candidates ELSE limit

\* mutant: the result is flagged as reranked
vectorResult_Flagged(query, results, limit, reranked) ==
    LET n == Min(limit, Len(results))
    IN  [err |-> FALSE, query |-> query, reranked |-> TRUE,
         items |-> [i \in 1..n |-> [path |-> results[i].path, content |-> results[i].content,
                                    score |-> 1 - results[i].distance]]]

\* Service.vectorResult: the first limit rows, score = 1 - distance
vectorResult(query, results, limit, reranked) ==
    LET n == Min(limit, Len(results))
    IN  [err |-> FALSE, query |-> query, reranked |-> reranked,
         items |-> [i \in 1..n |-> [path |-> results[i].path, content |-> results[i].content,
                                    score |-> 1 - results[i].distance]]]

\* Service.rerankedResult: the first limit scored rows, score passed through
rerankedResult(query, scored, limit) ==
    LET n == Min(limit, Len(scored))
    IN  [err |-> FALSE, query |-> query, reranked |-> TRUE,
         items |-> [i \in 1..n |-> [path |-> scored[i].result.path,
                                    content |-> scored[i].result.content,
                                    score |-> scored[i].score]]]

\* the texts asked and the vector the embedding model gives each of them
Queries == {"", "q1", "q2"}
Embed(query) == IF query = "q2" THEN UnitVec(2, -1) ELSE UnitVec(1, 1)

\* logits of the cross-encoder for a chunk: ascending in the chunk id,
\* descending in it, or the same for all
ScoreTables == {"asc", "desc", "flat"}
Logit(table, chunkId) ==
    IF table = "asc" THEN chunkId ELSE IF table = "desc" THEN 0 - chunkId ELSE 0

Perms(n) == {f \in [1..n -> 1..n] : \A i, j \in 1..n : i # j => f[i] # f[j]}

\* Reranker.Rerank: nothing for an empty list; otherwise an error (tensor or
\* inference failure), or the scored results in an order sort.Slice may
\* produce for "Score greater": ties in any order
NoRerank == [err |-> FALSE, scored |-> <<>>]
RerankOutcomes(results) ==
    IF Len(results) = 0 THEN {NoRerank}
    ELSE {[err |-> TRUE, scored |-> <<>>]} \cup
         { [err |-> FALSE, scored |-> s] :
             s \in UNION { { [i \in 1..Len(results) |->
                                [result |-> results[f[i]],
                                 score |-> Logit(t, results[f[i]].chunkId)]]
                            : f \in Perms(Len(results)) } : t \in ScoreTables } }

\* mutant: the comparison of sort.Slice turned around
Less_Ascending(a, b) == a.score < b.score

\* the less function given to sort.Slice: Score greater
Less(a, b) == a.score > b.score

\* what sort.Slice guarantees: no element is less than one placed before it
SortedDescending(scored) ==
    \A i, j \in 1..Len(scored) : i < j => ~Less(scored[j], scored[i])

\* Reranker.Rerank: the outcomes with the scored results sorted
Rerank(results) == {o \in RerankOutcomes(results) : SortedDescending(o.scored)}

\* mutant: an empty list of rows goes on to the reranker
NoResults_Never(rows) == FALSE

\* len(vectorResults) == 0
NoResults(rows) == Len(rows) = 0

\* mutant: the query is not checked
EmptyQuery_Never(query) == FALSE

\* p.Query == ""
EmptyQuery(query) == query = ""

\* Service.Search for params p, with the outcomes of its collaborators:
\* embedErr (no embedder, Embedder.Embed fails or returns no vector),
\* searchErr (the store query fails) and rr (what Reranker.Rerank returns if
\* it is called).  The fields embedded, searched and called record which of
\* the embedding step, Store.Search and Reranker.Rerank the call reached,
\* failed whether the reranker failed, fetchCount the LIMIT given to
\* Store.Search (0 if it was not reached).
ServiceSearch(docs, chs, loaded, p, embedErr, searchErr, rr) ==
    LET limit      == clamp(p.limit, MinLimit, MaxLimit, DefaultLimit)
        candidates == clamp(p.candidates, MinCandidates, MaxCandidates, DefaultCandidates)
        useRerank  == UseRerank(p.rerank, loaded)
        fetchCount == FetchCount(limit, candidates, useRerank)
        found      == Search(docs, chs, Embed(p.query), fetchCount, searchErr)
        failure    == [err |-> TRUE, query |-> p.query, reranked |-> FALSE, items |-> <<>>,
                       called |-> FALSE, failed |-> FALSE]
        reached    == [embedded |-> TRUE, searched |-> TRUE, fetchCount |-> fetchCount]
    IN  IF EmptyQuery(p.query) THEN failure @@ [embedded |-> FALSE, searched |-> FALSE, fetchCount |-> 0]
        ELSE IF embedErr THEN failure @@ [embedded |-> TRUE, searched |-> FALSE, fetchCount |-> 0]
        ELSE IF found.err THEN failure @@ reached
        ELSE IF NoResults(found.rows)
          THEN [err |-> FALSE, query |-> p.query, reranked |-> FALSE, items |-> <<>>,
                called |-> FALSE, failed |-> FALSE] @@ reached
        ELSE IF useRerank
          THEN IF rr.err
                 THEN vectorResult(p.query, found.rows, limit, FALSE)
                          @@ [called |-> TRUE, failed |-> TRUE] @@ reached
                 ELSE rerankedResult(p.query, rr.scored, limit)
                          @@ [called |-> TRUE, failed |-> FALSE] @@ reached
        ELSE vectorResult(p.query, found.rows, limit, FALSE)
                 @@ [called |-> FALSE, failed |-> FALSE] @@ reached

\* the rows Service.Search hands to the reranker for params p
Candidates(docs, chs, loaded, p) ==
    Search(docs, chs, Embed(p.query),
           FetchCount(clamp(p.limit, MinLimit, MaxLimit, DefaultLimit),
                      clamp(p.candidates, MinCandidates, MaxCandidates, DefaultCandidates),
                      UseRerank(p.rerank, loaded)), FALSE).rows

Params ==
    [query : Queries, limit : {-1, 0, 2, 25}, candidates : {-1, 0, 2, 150},
     rerank : {"nil", "true", "false"}]

\* whether Service.Search reaches the reranker for params p
ReachesReranker(docs, chs, loaded, p, embedErr, searchErr) ==
    /\ ~EmptyQuery(p.query) /\ ~embedErr /\ ~searchErr
    /\ UseRerank(p.rerank, loaded)

\* a store with one document and n passages, odd ones along the first axis
\* and even ones along the second
IndexedStore(n) ==
    {[id |-> i, docId |-> 1, content |-> IF i % 2 = 1 THEN "x" ELSE "y",
      emb |-> IF i % 2 = 1 THEN UnitVec(1, 1) ELSE UnitVec(2, 1)] : i \in 1..n}

InitSearch ==
    /\ documents = {[id |-> 1, path |-> "a.md", hash |-> "h1"]}
    /\ \E n \in 0..MaxPassages : chunks = IndexedStore(n)
    /\ docSeq = 1
    /\ chunkSeq = Cardinality(chunks)
    /\ deleted = {}
    /\ pc = "idle"
    /\ loc = NoLoc
    /\ ret = [op |-> "none"]
    /\ hasReranker \in BOOLEAN
    /\ result = [op |-> "none"]
    /\ w = <<>>
    /\ ctxDone = FALSE
    /\ texts = <<>>
    /\ encoded = NoEncoding
    /\ ort = NoRuntime
    /\ ctor = <<>>

\* one call of Service.Search
ServiceSearchCall ==
    /\ result.op = "none"
    /\ \E p \in Params, fault \in {"none", "embed", "search"} :
         LET embedErr  == fault = "embed"
             searchErr == fault = "search"
         IN  \E rr \in IF ReachesReranker(documents, chunks, hasReranker, p, embedErr, searchErr)
                         THEN Rerank(Candidates(documents, chunks, hasReranker, p))
                         ELSE {NoRerank} :
               result' = ServiceSearch(documents, chunks, hasReranker, p, embedErr, searchErr, rr)
                            @@ [op |-> "Search", p |-> p, fault |-> fault, scored |-> rr.scored]
    /\ UNCHANGED <<documents, chunks, docSeq, chunkSeq, apiVars, hasReranker, idxVars, tokVars, ortVars>>

\* the caller takes the Result
TakeSearchResult ==
    /\ result.op # "none"
    /\ result' = [op |-> "none"]
    /\ UNCHANGED <<documents, chunks, docSeq, chunkSeq, apiVars, hasReranker, idxVars, tokVars, ortVars>>

NextSearch ==
    \/ ServiceSearchCall
    \/ TakeSearchResult

SpecSearch == InitSearch /\ [][NextSearch]_vars

\* what a vector-only search with the same query, limit and candidates returns
VectorOnly(p) ==
    ServiceSearch(documents, chunks, hasReranker, [p EXCEPT !.rerank = "false"],
                  FALSE, FALSE, NoRerank)

\* C1: when the reranker is invoked and fails, Search returns without error
\* exactly the items of the vector-only search with the same query, limit and
\* candidate pool, and Reranked is false.
C1_RerankFailureFallsBack ==
    (result.op = "Search" /\ result.failed) =>
        /\ ~result.err
        /\ ~result.reranked
        /\ result.items = VectorOnly(result.p).items

\* C2: Search with rerank = true and no reranker loaded returns an error.
C2_ForcedRerankErrors ==
    (result.op = "Search" /\ result.p.rerank = "true" /\ ~hasReranker) => result.err

\* C2 (as the code behaves): Search with rerank = true and no reranker
\* loaded is a vector-only search - the reranker is not invoked, Reranked is
\* false, and the outcome (items, or the error of an empty query) is that of
\* the same call with rerank = false.
C2_ForcedRerankDegrades ==
    (result.op = "Search" /\ result.p.rerank = "true" /\ ~hasReranker) =>
        /\ ~result.called
        /\ ~result.reranked
        /\ (result.p.query # "" /\ ~result.err) =>
              (result.items = VectorOnly(result.p).items /\ ~VectorOnly(result.p).err)
        /\ result.p.query = "" => result.err

\* C2 witness: such a call has returned passages.
C2_Witness ==
    /\ result.op = "Search" /\ result.p.rerank = "true" /\ ~hasReranker
    /\ ~result.err /\ Len(result.items) > 1

(***************************************************************************)
(* cmd/index: processFiles runs processFile for every file in an errgroup  *)
(***************************************************************************)
\* chunks a file is split into
MaxFileChunks == 1

\* the sha256 of a file's present content
FileHash == "h2"

\* what is given about a file: whether os.ReadFile succeeds, the hash it is
\* indexed under already ("" if it is not), the number of chunks ChunkFile
\* returns for it (ChunkFile has no failing return), whether Embed fails
FileInputs ==
    [readable : BOOLEAN, indexed : {"", "h1", "h2"}, nChunks : 0..MaxFileChunks,
     embedFails : BOOLEAN]

PathID(path) == IF path = "a.md" THEN 1 ELSE 2

\* chunks the store holds for a file indexed by an earlier run: those of its
\* present content when the hash is the present one, one chunk of the old
\* content otherwise
StoredChunks(in) == IF in.indexed = FileHash THEN in.nChunks ELSE 1

InitIndex ==
    /\ \E in \in [Paths -> FileInputs] :
         LET known == {f \in Paths : in[f].indexed # ""}
         IN  /\ documents = {[id |-> PathID(f), path |-> f, hash |-> in[f].indexed] : f \in known}
             /\ chunks = UNION { { ChunkRow((PathID(f) - 1) * (MaxFileChunks + 1) + i, PathID(f),
                                             [content |-> "x", emb |-> UnitVec(1, 1)])
                                    : i \in 1..StoredChunks(in[f]) } : f \in known }
             /\ w = [f \in Paths |-> [in |-> in[f], pc |-> "read", outcome |-> "",
                                       docID |-> 0, left |-> 0, buf |-> {}]]
    /\ docSeq = Cardinality(Paths)
    /\ chunkSeq = Cardinality(Paths) * (MaxFileChunks + 1)
    /\ deleted = {}
    /\ pc = "idle"
    /\ loc = NoLoc
    /\ ret = [op |-> "none"]
    /\ hasReranker = FALSE
    /\ result = [op |-> "none"]
    /\ ctxDone = FALSE
    /\ texts = <<>>
    /\ encoded = NoEncoding
    /\ ort = NoRuntime
    /\ ctor = <<>>

\* processFile goes on to its next statement
Goto(f, next) == w' = [w EXCEPT ![f].pc = next]

\* processFile returns; a non-nil error makes the errgroup cancel ctx
Return(f, failed, outcome) ==
    /\ w' = [w EXCEPT ![f].pc = "done", ![f].outcome = outcome, ![f].buf = {}]
    /\ ctxDone' = (ctxDone \/ failed)

\* os.ReadFile: an unreadable file is logged and skipped, the error is not returned
ReadFile(f) ==
    /\ w[f].pc = "read"
    /\ IF w[f].in.readable
         THEN Goto(f, "unchanged") /\ UNCHANGED ctxDone
         ELSE Return(f, FALSE, "unreadable")
    /\ UNCHANGED <<documents, chunks, docSeq, chunkSeq, apiVars, svcVars, tokVars, ortVars>>

\* st.FileUnchanged(ctx, path, hashStr)
CheckUnchanged(f) ==
    /\ w[f].pc = "unchanged"
    /\ IF FileUnchanged(documents, f, FileHash, ctxDone)
         THEN Return(f, FALSE, "skipped")
         ELSE Goto(f, "delete") /\ UNCHANGED ctxDone
    /\ UNCHANGED <<documents, chunks, docSeq, chunkSeq, apiVars, svcVars, tokVars, ortVars>>

\* st.DeleteDocumentByPath(ctx, path), the SELECT; its error is only logged
DeleteLookup(f) ==
    /\ w[f].pc = "delete"
    /\ IF ctxDone \/ SelectDocID(documents, f) = 0
         THEN Goto(f, "insert")
         ELSE w' = [w EXCEPT ![f].pc = "delete_chunks", ![f].docID = SelectDocID(documents, f)]
    /\ UNCHANGED <<documents, chunks, docSeq, chunkSeq, apiVars, svcVars, tokVars, ortVars, ctxDone>>

\* st.DeleteDocumentByPath(ctx, path), DELETE FROM chunks
DeleteOldChunks(f) ==
    /\ w[f].pc = "delete_chunks"
    /\ IF ctxDone
         THEN Goto(f, "insert") /\ UNCHANGED chunks
         ELSE Goto(f, "delete_document") /\ chunks' = DeleteChunksOf(chunks, w[f].docID)
    /\ UNCHANGED <<documents, docSeq, chunkSeq, apiVars, svcVars, tokVars, ortVars, ctxDone>>

\* st.DeleteDocumentByPath(ctx, path), DELETE FROM documents
DeleteOldDocument(f) ==
    /\ w[f].pc = "delete_document"
    /\ Goto(f, "insert")
    /\ documents' = IF ctxDone THEN documents ELSE DeleteDocumentRow(documents, w[f].docID)
    /\ UNCHANGED <<chunks, docSeq, chunkSeq, apiVars, svcVars, tokVars, ortVars, ctxDone>>

\* st.InsertDocument(ctx, path, hashStr, title); its error is returned
InsertNewDocument(f) ==
    /\ w[f].pc = "insert"
    /\ IF ctxDone \/ UniqueViolation(documents, f)
         THEN Return(f, TRUE, "error") /\ UNCHANGED <<documents, docSeq>>
         ELSE /\ docSeq' = docSeq + 1
              /\ documents' = documents \cup {[id |-> docSeq + 1, path |-> f, hash |-> FileHash]}
              /\ w' = [w EXCEPT ![f].pc = "chunk", ![f].docID = docSeq + 1]
              /\ UNCHANGED ctxDone
    /\ UNCHANGED <<chunks, chunkSeq, apiVars, svcVars, tokVars, ortVars>>

\* ch.ChunkFile(content); a file without chunks counts as indexed
ChunkFile(f) ==
    /\ w[f].pc = "chunk"
    /\ IF w[f].in.nChunks = 0
         THEN Return(f, FALSE, "indexed")
         ELSE Goto(f, "embed") /\ UNCHANGED ctxDone
    /\ UNCHANGED <<documents, chunks, docSeq, chunkSeq, apiVars, svcVars, tokVars, ortVars>>

\* embedAndInsertChunks: emb.Embed(texts); its error is returned
EmbedChunks(f) ==
    /\ w[f].pc = "embed"
    /\ IF w[f].in.embedFails
         THEN Return(f, TRUE, "error")
         ELSE w' = [w EXCEPT ![f].pc = "tx_begin", ![f].left = w[f].in.nChunks]
              /\ UNCHANGED ctxDone
    /\ UNCHANGED <<documents, chunks, docSeq, chunkSeq, apiVars, svcVars, tokVars, ortVars>>

\* st.InsertChunks: BeginTx(ctx) and the prepared statement
TxBegin(f) ==
    /\ w[f].pc = "tx_begin"
    /\ IF ctxDone
         THEN Return(f, TRUE, "error")
         ELSE Goto(f, "tx_exec") /\ UNCHANGED ctxDone
    /\ UNCHANGED <<documents, chunks, docSeq, chunkSeq, apiVars, svcVars, tokVars, ortVars>>

\* st.InsertChunks: stmt.ExecContext for one chunk; a cancelled ctx ends the
\* transaction and the deferred Rollback leaves none of its rows
TxExec(f) ==
    /\ w[f].pc = "tx_exec"
    /\ w[f].left > 0
    /\ IF ctxDone
         THEN /\ Return(f, TRUE, "error")
              /\ chunks' = RollbackRows(chunks, w[f].buf)
              /\ UNCHANGED chunkSeq
         ELSE /\ chunkSeq' = chunkSeq + 1
              /\ w' = [w EXCEPT ![f].left = @ - 1,
                                 ![f].buf = @ \cup {ChunkRow(chunkSeq + 1, w[f].docID,
                                                  [content |-> "x", emb |-> UnitVec(1, 1)])}]
              /\ UNCHANGED <<chunks, ctxDone>>
    /\ UNCHANGED <<documents, docSeq, apiVars, svcVars, tokVars, ortVars>>

\* st.InsertChunks: tx.Commit()
TxCommit(f) ==
    /\ w[f].pc = "tx_exec"
    /\ w[f].left = 0
    /\ IF ctxDone
         THEN Return(f, TRUE, "error") /\ chunks' = RollbackRows(chunks, w[f].buf)
         ELSE Return(f, FALSE, "indexed") /\ chunks' = CommitRows(chunks, w[f].buf)
    /\ UNCHANGED <<documents, docSeq, chunkSeq, apiVars, svcVars, tokVars, ortVars>>

NextIndex ==
    \/ \E f \in Paths : ReadFile(f)
    \/ \E f \in Paths : CheckUnchanged(f)
    \/ \E f \in Paths : DeleteLookup(f)
    \/ \E f \in Paths : DeleteOldChunks(f)
    \/ \E f \in Paths : DeleteOldDocument(f)
    \/ \E f \in Paths : InsertNewDocument(f)
    \/ \E f \in Paths : ChunkFile(f)
    \/ \E f \in Paths : EmbedChunks(f)
    \/ \E f \in Paths : TxBegin(f)
    \/ \E f \in Paths : TxExec(f)
    \/ \E f \in Paths : TxCommit(f)

SpecIndex == InitIndex /\ [][NextIndex]_vars

\* how processFile ends for a file when no other file is in the batch
OutcomeAlone(in) ==
    IF ~in.readable THEN "unreadable"
    ELSE IF in.indexed = FileHash THEN "skipped"
    ELSE IF in.nChunks > 0 /\ in.embedFails THEN "error"
    ELSE "indexed"

\* C10: an error while one file is processed skips only that file - every
\* other file of the batch ends as it would have ended without the failing file.
C10_OnlyFailingFileSkipped ==
    \A f \in Paths : w[f].pc = "done" => w[f].outcome = OutcomeAlone(w[f].in)

\* every file of the batch is readable and indexed under its present hash
AllUnchanged == \A f \in Paths : w[f].in.readable /\ w[f].in.indexed = FileHash

ClampInputs == (0 - 2)..(MaxCandidates + 2)

\* the effective limit and the effective candidate pool as the claim words them
C14_EffectiveLimit(limit) ==
    IF limit = 0 THEN 5 ELSE IF limit < 0 THEN 1 ELSE IF limit > 20 THEN 20 ELSE limit
C14_EffectivePool(candidates) ==
    IF candidates = 0 THEN 50
    ELSE IF candidates < 1 THEN 1 ELSE IF candidates > 100 THEN 100 ELSE candidates

\* C14: Search returns at most E items, E being 5 for limit 0, 1 for a
\* negative limit, 20 for a limit above 20 and the limit itself otherwise; the
\* pool handed to the reranker has at most the candidates value clamped the
\* same way to [1, 100] with default 50; Search's clamp computes exactly these
\* values.
C14_LimitsClamped ==
    /\ \A v \in ClampInputs :
          /\ clamp(v, MinLimit, MaxLimit, DefaultLimit) = C14_EffectiveLimit(v)
          /\ clamp(v, MinCandidates, MaxCandidates, DefaultCandidates) = C14_EffectivePool(v)
    /\ result.op = "Search" =>
          /\ Len(result.items) <= C14_EffectiveLimit(result.p.limit)
          /\ result.called =>
                Len(Candidates(documents, chunks, hasReranker, result.p))
                    <= C14_EffectivePool(result.p.candidates)

\* C14 witness: the limit cut the result - a Search with limit 2 returned two
\* items from a store with more passages.
C14_Witness ==
    /\ result.op = "Search" /\ result.p.limit = 2
    /\ Len(result.items) = 2 /\ Cardinality(chunks) > 2

\* C15: Search with an empty query returns an error before anything else is
\* done - the embedder, the store search and the reranker are not reached,
\* and the call changes neither documents nor passages.
C15_EmptyQueryRejected ==
    /\ [](  (result.op = "Search" /\ result.p.query = "") =>
              (result.err /\ ~result.embedded /\ ~result.searched /\ ~result.called
                 /\ result.items = <<>>))
    /\ [][ (result'.op = "Search" /\ result'.p.query = "") =>
              (documents' = documents /\ chunks' = chunks /\ docSeq' = docSeq
                 /\ chunkSeq' = chunkSeq) ]_vars

\* C15 witness: an empty query was refused by a service with a reranker over
\* a store with passages, every other parameter being valid.
C15_Witness ==
    /\ result.op = "Search" /\ result.p.query = "" /\ result.err
    /\ result.p.limit = 2 /\ hasReranker /\ chunks # {}

\* C16: with the rerank preference unset, a Search that found passages
\* invoked the reranker exactly if one is loaded, and asked the store for the
\* effective candidate pool if it did and for the effective limit if it did
\* not; with the preference false the reranker is never invoked and Reranked
\* is false.
C16_RerankResolution ==
    /\ (result.op = "Search" /\ result.p.rerank = "nil" /\ ~result.err
           /\ Len(result.items) > 0) =>
          /\ result.called <=> hasReranker
          /\ result.fetchCount = IF hasReranker THEN C14_EffectivePool(result.p.candidates)
                                                ELSE C14_EffectiveLimit(result.p.limit)
    /\ (result.op = "Search" /\ result.p.rerank = "false") =>
          (~result.called /\ ~result.reranked)

\* C16 witness: with the preference unset and a reranker loaded, a Search
\* fetched a pool larger than its limit, reranked it and returned items.
C16_Witness ==
    /\ result.op = "Search" /\ result.p.rerank = "nil" /\ hasReranker
    /\ result.called /\ result.reranked /\ Len(result.items) > 0
    /\ result.fetchCount > C14_EffectiveLimit(result.p.limit)

\* C17: Search with rerank = true on a service without a reranker, given a
\* query and working collaborators, completes without error and its Result
\* has Reranked = false.
C17_ForcedRerankNoError ==
    (result.op = "Search" /\ result.p.rerank = "true" /\ ~hasReranker
       /\ result.p.query # "" /\ result.fault = "none") =>
        (~result.err /\ ~result.reranked)

\* C17 witness: such a call returned passages from a store that holds some.
C17_Witness ==
    /\ result.op = "Search" /\ result.p.rerank = "true" /\ ~hasReranker
    /\ result.fault = "none" /\ result.p.query = "q2"
    /\ ~result.err /\ ~result.reranked /\ Len(result.items) = 1

\* C18: when the vector search returns no passages, Search returns a Result
\* without error that carries the query, no items and Reranked = false, and
\* the reranker is not invoked, also when one is loaded and was asked for.
C18_NoPassagesEmptyResult ==
    (result.op = "Search" /\ result.searched /\ result.fault = "none"
       /\ Candidates(documents, chunks, hasReranker, result.p) = <<>>) =>
        /\ ~result.err
        /\ result.query = result.p.query
        /\ result.items = <<>>
        /\ ~result.reranked
        /\ ~result.called

\* C18 witness: a Search that asked for reranking on a service with a
\* reranker found nothing in an empty store.
C18_Witness ==
    /\ result.op = "Search" /\ result.searched /\ result.fault = "none"
    /\ chunks = {} /\ hasReranker /\ result.p.rerank = "true"
    /\ ~result.err /\ result.items = <<>>

\* C19: Rerank on a non-empty candidate list, when it succeeds, returns each
\* candidate exactly once, none added or dropped, in order of non-increasing
\* score; on an empty list it returns an empty result and no error, the
\* model not being run.
C19_RerankPermutation ==
    /\ Rerank(<<>>) = {[err |-> FALSE, scored |-> <<>>]}
    /\ result.op = "Search" =>
          LET c == Candidates(documents, chunks, hasReranker, result.p)
          IN  \A o \in Rerank(c) :
                (Len(c) > 0 /\ ~o.err) =>
                  /\ Len(o.scored) = Len(c)
                  /\ {o.scored[i].result : i \in 1..Len(c)} = {c[i] : i \in 1..Len(c)}
                  /\ \A i \in 1..(Len(c) - 1) : o.scored[i].score >= o.scored[i + 1].score

\* C19 witness: a Search reranked at least two candidates and returned them
\* with different scores.
C19_Witness ==
    /\ result.op = "Search" /\ result.called /\ result.reranked
    /\ Len(result.items) > 1
    /\ result.items[1].score > result.items[2].score

(***************************************************************************)
(* embedder: Embedder.tokenize, tokenizeText, wordPieceTokenize            *)
(***************************************************************************)
\* length of a row of the tokenizer output (256 in the embedder)
MaxSeqLen == 4

\* runes of a text
MaxTextLen == 4

\* bytes of a word above which wordPieceTokenize gives up (100 in the embedder
\* and in the reranker)
maxWordLen == 3

clsToken == 101
sepToken == 102
padToken == 0
unkToken == 100

\* runes: two letters, an upper-case letter, a space, a punctuation mark and
\* a control character (written ^), and a letter outside ASCII (written e2:
\* one rune, two bytes in the string)
Runes == {"a", "b", "A", " ", ".", "^", "e2"}
IsControl(r) == r = "^"
IsSpace(r) == r = " "
IsPunct(r) == r = "."
ToLower(text) == [i \in 1..Len(text) |-> IF text[i] = "A" THEN "a" ELSE text[i]]

\* len(word) of a Go string: its bytes, not its runes
RECURSIVE ByteLen(_)
ByteLen(word) ==
    IF word = <<>> THEN 0
    ELSE (IF Head(word) = "e2" THEN 2 ELSE 1) + ByteLen(Tail(word))

\* the vocabulary: whole words and continuation pieces (cont, written ##x)
Vocab ==
    { [cont |-> FALSE, s |-> <<"a">>,      id |-> 201],
      [cont |-> FALSE, s |-> <<"a", "b">>, id |-> 202],
      [cont |-> TRUE,  s |-> <<"b">>,      id |-> 203],
      [cont |-> FALSE, s |-> <<".">>,      id |-> 204] }
InVocab(cont, s) == \E v \in Vocab : v.cont = cont /\ v.s = s
VocabID(cont, s) == (CHOOSE v \in Vocab : v.cont = cont /\ v.s = s).id

\* tokenizeText from rune i on: current is the word being built
RECURSIVE SplitFrom(_, _, _, _)
SplitFrom(text, i, current, words) ==
    LET flushed == IF Len(current) > 0 THEN Append(words, current) ELSE words
    IN  IF i > Len(text) THEN flushed
        ELSE IF IsControl(text[i]) THEN SplitFrom(text, i + 1, current, words)
        ELSE IF IsSpace(text[i]) THEN SplitFrom(text, i + 1, <<>>, flushed)
        ELSE IF IsPunct(text[i])
          THEN SplitFrom(text, i + 1, <<>>, Append(flushed, <<text[i]>>))
        ELSE SplitFrom(text, i + 1, Append(current, text[i]), words)

tokenizeText(text) == SplitFrom(text, 1, <<>>, <<>>)

\* the greedy loop of wordPieceTokenize from rune start on: the longest piece
\* in the vocabulary, or UNK for one rune
\* mutant: no piece is looked up with the ## marker
Marker_Never(start) == FALSE

\* if start > 0 { substr = "##" + substr }   (start counts from 1 here)
Marker(start) == start > 1

RECURSIVE PiecesFrom(_, _, _)
PiecesFrom(word, start, tokens) ==
    IF start > Len(word) THEN tokens
    ELSE LET ends == {end \in start..Len(word) :
                         InVocab(Marker(start), SubSeq(word, start, end))}
         IN  IF ends = {}
               THEN PiecesFrom(word, start + 1, Append(tokens, unkToken))
               ELSE LET end == CHOOSE e \in ends : \A o \in ends : o <= e
                    IN  PiecesFrom(word, end + 1,
                                   Append(tokens, VocabID(Marker(start), SubSeq(word, start, end))))

wordPieceTokenize(word) ==
    IF InVocab(FALSE, word) THEN <<VocabID(FALSE, word)>>
    ELSE IF ByteLen(word) > maxWordLen THEN <<unkToken>>
    ELSE PiecesFrom(word, 1, <<>>)

\* the sub-tokens of all words in order
RECURSIVE SubTokens(_)
SubTokens(words) ==
    IF words = <<>> THEN <<>>
    ELSE wordPieceTokenize(Head(words)) \o SubTokens(Tail(words))

\* mutant: tokens are written up to the last position of the row
LastTokenPos_RowEnd == MaxSeqLen

\* tokens are written while pos < MaxSeqLen-1
LastTokenPos == MaxSeqLen - 1

\* one row of Embedder.tokenize: CLS, the sub-tokens that fit, SEP if there
\* is a position left, padding
TokenizeRow(text) ==
    LET all  == SubTokens(tokenizeText(ToLower(text)))
        kept == Min(Len(all), LastTokenPos - 1)
        pos  == 1 + kept
        sep  == pos < MaxSeqLen
    IN  [ids  |-> [i \in 1..MaxSeqLen |->
                     IF i = 1 THEN clsToken
                     ELSE IF i <= pos THEN all[i - 1]
                     ELSE IF sep /\ i = pos + 1 THEN sepToken
                     ELSE padToken],
         mask |-> [i \in 1..MaxSeqLen |->
                     IF i <= pos \/ (sep /\ i = pos + 1) THEN 1 ELSE 0]]

\* Embedder.tokenize: the rows of the batch one after the other
RECURSIVE tokenize(_)
tokenize(batch) ==
    IF batch = <<>> THEN NoEncoding
    ELSE LET row  == TokenizeRow(Head(batch))
             rest == tokenize(Tail(batch))
         IN  [ids |-> row.ids \o rest.ids, mask |-> row.mask \o rest.mask]

Texts == UNION {[1..n -> Runes] : n \in 0..MaxTextLen}

\* batches: any single text, and any short text followed by a second one
Batches2 == {<<t>> : t \in Texts} \cup {<<t, <<"a", "b">>>> : t \in {x \in Texts : Len(x) <= 1}}

InitTokenize ==
    /\ documents = {}
    /\ chunks = {}
    /\ docSeq = 0
    /\ chunkSeq = 0
    /\ deleted = {}
    /\ pc = "idle"
    /\ loc = NoLoc
    /\ ret = [op |-> "none"]
    /\ hasReranker = FALSE
    /\ result = [op |-> "none"]
    /\ w = <<>>
    /\ ctxDone = FALSE
    /\ texts \in Batches2
    /\ encoded = NoEncoding
    /\ ort = NoRuntime
    /\ ctor = <<>>

\* what the call computed on the way for a text: its words and the
\* sub-tokens wordPieceTokenize returned for each of them
WordPieces(text) ==
    LET words == tokenizeText(ToLower(text))
    IN  [words  |-> words,
         pieces |-> [k \in 1..Len(words) |-> wordPieceTokenize(words[k])]]

\* one call of Embedder.tokenize
TokenizeCall ==
    /\ encoded = NoEncoding
    /\ encoded' = tokenize(texts) @@ WordPieces(texts[1])
    /\ UNCHANGED <<documents, chunks, docSeq, chunkSeq, apiVars, svcVars, idxVars, texts, ortVars>>

NextTokenize == TokenizeCall

SpecTokenize == InitTokenize /\ [][NextTokenize]_vars

\* row b of a flat tokenizer output
RowOf(flat, b) == SubSeq(flat, (b - 1) * MaxSeqLen + 1, b * MaxSeqLen)

\* C20: every row of the tokenizer output has exactly L ids and L mask
\* entries, starts with CLS with mask 1, has SEP at the last position whose
\* mask is 1, and holds PAD with mask 0 at every position after that SEP -
\* for the empty text and for texts with more sub-tokens than fit as well.
C20_TokenLayout ==
    encoded # NoEncoding =>
        /\ Len(encoded.ids) = Len(texts) * MaxSeqLen
        /\ Len(encoded.mask) = Len(texts) * MaxSeqLen
        /\ \A b \in 1..Len(texts) :
              LET ids  == RowOf(encoded.ids, b)
                  mask == RowOf(encoded.mask, b)
                  used == {i \in 1..MaxSeqLen : mask[i] = 1}
                  last == CHOOSE i \in used : \A j \in used : j <= i
              IN  /\ Len(ids) = MaxSeqLen /\ Len(mask) = MaxSeqLen
                  /\ ids[1] = clsToken /\ mask[1] = 1
                  /\ last > 1 /\ ids[last] = sepToken
                  /\ \A i \in (last + 1)..MaxSeqLen : ids[i] = padToken /\ mask[i] = 0
                  /\ \A i \in 1..MaxSeqLen : mask[i] \in {0, 1}

\* C20 witness: a text with more sub-tokens than fit was tokenized and its
\* row ends with SEP.
C20_Witness ==
    /\ encoded # NoEncoding
    /\ Len(SubTokens(tokenizeText(ToLower(texts[1])))) > MaxSeqLen - 2
    /\ encoded.ids[MaxSeqLen] = sepToken

(***************************************************************************)
(* Sanitation of vectors before persistence (checked under Spec)           *)
(***************************************************************************)
\* component values tried in every position of a vector
FloatSamples == {NaN, PosInf, NegInf, 0, 1}

\* the literal written for v has 0 where v has NaN or an infinity, v's own
\* value elsewhere, and passes the cast of the INSERT's parameter
SanitizedLiteral(v) ==
    LET lit == EmbeddingParam(v)
    IN  /\ Len(lit) = Len(v)
        /\ \A k \in 1..Len(v) :
              lit[k] = IF v[k] \in {NaN, PosInf, NegInf} THEN 0 ELSE v[k]
        /\ CastOK(lit)

\* C21: every persisted embedding is free of NaN and infinities - each such
\* component of the input is stored as 0 - and an insert of a passage or of
\* a batch never fails because its vector has such a component: without a
\* failed statement, only a vector of the wrong width is refused.
C21_VectorsSanitized ==
    /\ [](\A v \in [1..Dim -> FloatSamples] : SanitizedLiteral(v))
    /\ [](\A c \in chunks \cup loc.buf : \A k \in 1..Len(c.emb) :
              c.emb[k] \notin {NaN, PosInf, NegInf})
    /\ [][ /\ (ret' # ret /\ ret'.op = "InsertChunk" /\ ~ret'.fault) =>
                 /\ ret'.err <=> ret'.width \notin {0, Dim}
                 /\ ~ret'.err => Cardinality(chunks') = Cardinality(chunks) + 1
           /\ (pc = "tx_exec" /\ pc' = "idle" /\ ~ret'.fault) =>
                 Len(Head(loc.todo).emb) \notin {0, Dim}
           /\ (pc = "tx_exec" /\ pc' # "idle" /\ loc' # loc) =>
                 \E row \in loc'.buf \ loc.buf :
                    /\ loc'.buf = loc.buf \cup {row}
                    /\ Len(row.emb) = Len(Head(loc.todo).emb)
                    /\ \A k \in 1..Len(row.emb) :
                          row.emb[k] = IF Head(loc.todo).emb[k] \in {NaN, PosInf, NegInf}
                                       THEN 0 ELSE Head(loc.todo).emb[k] ]_vars

\* C21 witness: a passage whose vector came with an infinity or NaN was
\* inserted without error and is in the table with 0 in that position, next
\* to a committed batch row.
C21_Witness ==
    /\ ret.op = "InsertChunk" /\ ret.special /\ ~ret.err
    /\ \E c \in chunks : c.id = chunkSeq /\ c.content = "y" /\ c.emb[1] = 0
    /\ Cardinality(chunks) = 2

\* C22: in every reachable store state every passage's document id is the
\* id of a document that is in the store.
C22_PassageHasDocument ==
    \A c \in chunks : \E d \in documents : d.id = c.docId

\* C23: wherever processFile stops for a file, the store holds either no
\* document with the file's path and new hash, or that document with all of
\* the file's passages.
C23_NoPartialDocument ==
    \A f \in Paths : w[f].pc = "done" =>
        \A d \in documents : (d.path = f /\ d.hash = FileHash) =>
            Cardinality({c \in chunks : c.docId = d.id}) = w[f].in.nChunks

\* the goroutine of file f is inside a store mutation: DeleteDocumentByPath
\* after its SELECT found the document, or the transaction of InsertChunks
\* (InsertDocument is one statement, so one step)
InMutation(f) == w[f].pc \in {"delete_chunks", "delete_document", "tx_exec"}

\* C24: during bulk indexing at most one worker at a time is executing a
\* store mutation.
C24_WritesSerialized ==
    \A f, g \in Paths : (f # g /\ InMutation(f)) => ~InMutation(g)

\* the place of a row in the candidate list given to Reranker.Rerank
PlaceIn(rows, row) == CHOOSE k \in 1..Len(rows) : rows[k] = row

\* C25: rerank is stable on ties - two candidates with exactly equal scores
\* come out in the order in which they were in the candidate list.
C25_RerankStable ==
    (result.op = "Search" /\ result.called /\ ~result.failed) =>
        LET rows == Candidates(documents, chunks, hasReranker, result.p)
        IN  \A i, j \in 1..Len(result.scored) :
               (i < j /\ result.scored[i].score = result.scored[j].score) =>
                   PlaceIn(rows, result.scored[i].result) < PlaceIn(rows, result.scored[j].result)

(***************************************************************************)
(* Reranker.tokenizePairs: one row [CLS] query [SEP] passage [SEP] per     *)
(* candidate.  SpecPairs applies it to a query and one passage, given as   *)
(* the two texts of the batch.                                             *)
(***************************************************************************)
\* length of a row of the cross-encoder input (MaxSeqLen = 512 in the reranker)
PairSeqLen == 6

\* positions the code means to keep for the passage (64 in the reranker)
MinPassageTokens == 2

\* splitWords: the reranker's word splitter, the same loop as tokenizeText
splitWords(text) == SplitFrom(text, 1, <<>>, <<>>)

\* Reranker.tokenizeText: the sub-tokens of the words of a text
Reranker_tokenizeText(text) == SubTokens(splitWords(text))

\* maxQueryTokens := MaxSeqLen - 64 - 2
maxQueryTokens == PairSeqLen - MinPassageTokens - 2

\* the query tokens kept: queryTokens[:maxQueryTokens] if there are more
TruncateQuery(queryTokens) ==
    IF Len(queryTokens) > maxQueryTokens THEN SubSeq(queryTokens, 1, maxQueryTokens)
    ELSE queryTokens

\* one row of tokenizePairs, statement by statement; pos counts the
\* positions written
PairRow(queryTokens, content) ==
    LET nq   == Min(Len(queryTokens), PairSeqLen - 3)       \* while pos < MaxSeqLen-2
        pos1 == 1 + nq
        sep1 == pos1 < PairSeqLen - 1
        pos2 == IF sep1 THEN pos1 + 1 ELSE pos1
        passageTokens == Reranker_tokenizeText(ToLower(content))
        room == IF pos2 < PairSeqLen - 1 THEN PairSeqLen - 1 - pos2 ELSE 0
        np   == Min(Len(passageTokens), room)                \* while pos < MaxSeqLen-1
        pos3 == pos2 + np
        sep2 == pos3 < PairSeqLen
        pos4 == IF sep2 THEN pos3 + 1 ELSE pos3
        used == <<clsToken>> \o SubSeq(queryTokens, 1, nq)
                    \o (IF sep1 THEN <<sepToken>> ELSE <<>>)
                    \o SubSeq(passageTokens, 1, np)
                    \o (IF sep2 THEN <<sepToken>> ELSE <<>>)
    IN  [ids  |-> [i \in 1..PairSeqLen |-> IF i <= pos4 THEN used[i] ELSE padToken],
         mask |-> [i \in 1..PairSeqLen |-> IF i <= pos4 THEN 1 ELSE 0]]

\* Reranker.tokenizePairs: the query is tokenized and truncated once, then
\* one row is written per result
RECURSIVE PairRows(_, _)
PairRows(queryTokens, contents) ==
    IF contents = <<>> THEN NoEncoding
    ELSE LET row  == PairRow(queryTokens, Head(contents))
             rest == PairRows(queryTokens, Tail(contents))
         IN  [ids |-> row.ids \o rest.ids, mask |-> row.mask \o rest.mask]

tokenizePairs(query, contents) ==
    PairRows(TruncateQuery(Reranker_tokenizeText(ToLower(query))), contents)

\* queries and passages: up to MaxTextLen runes, each rune a word of its own
\* or a letter, so texts of 0 to MaxTextLen sub-tokens
PairTexts == UNION {[1..n -> {"a", ".", "A"}] : n \in 0..MaxTextLen}

InitPairs ==
    /\ documents = {}
    /\ chunks = {}
    /\ docSeq = 0
    /\ chunkSeq = 0
    /\ deleted = {}
    /\ pc = "idle"
    /\ loc = NoLoc
    /\ ret = [op |-> "none"]
    /\ hasReranker = TRUE
    /\ result = [op |-> "none"]
    /\ w = <<>>
    /\ ctxDone = FALSE
    /\ texts \in PairTexts \X PairTexts
    /\ encoded = NoEncoding
    /\ ort = NoRuntime
    /\ ctor = <<>>

\* one call of Reranker.tokenizePairs with the query texts[1] and one result
\* whose content is texts[2]
TokenizePairsCall ==
    /\ encoded = NoEncoding
    /\ encoded' = tokenizePairs(texts[1], <<texts[2]>>)
    /\ UNCHANGED <<documents, chunks, docSeq, chunkSeq, apiVars, svcVars, idxVars, texts, ortVars>>

NextPairs == TokenizePairsCall

SpecPairs == InitPairs /\ [][NextPairs]_vars

\* C26: in every pair row both SEP tokens are present, and a passage with at
\* least 64 (here MinPassageTokens) sub-tokens has at least that many ids
\* between the first SEP and the final SEP, whatever the length of the query.
C26_PassageSlots ==
    encoded # NoEncoding =>
        LET seps  == {i \in 1..PairSeqLen : encoded.ids[i] = sepToken}
            first == CHOOSE i \in seps : \A j \in seps : i <= j
            last  == CHOOSE i \in seps : \A j \in seps : j <= i
        IN  /\ Cardinality(seps) = 2
            /\ encoded.mask[last] = 1
            /\ \A i \in (last + 1)..PairSeqLen : encoded.mask[i] = 0
            /\ Len(Reranker_tokenizeText(ToLower(texts[2]))) >= MinPassageTokens =>
                  last - first - 1 >= MinPassageTokens

(***************************************************************************)
(* WordPiece (checked under SpecTokenize on the words of the first text)   *)
(***************************************************************************)
\* out is the outcome of a greedy longest-prefix search over word: the word
\* is cut into pieces that follow each other without gap or overlap; a piece
\* is the longest prefix of what remains that is in the vocabulary, with its
\* id in out, or one rune with UNK in out when no prefix is in the
\* vocabulary.  The ## form is looked up for every piece that does not start
\* the word (byPosition), or for every piece after the first one found in
\* the vocabulary (~byPosition).
IsGreedy(word, out, byPosition) ==
    \E cuts \in SUBSET (2..Len(word)) :
        LET Starts       == {1} \cup cuts
            Idx(s)       == Cardinality({t \in Starts : t <= s})
            NextStart(s) == IF \E t \in Starts : t > s
                              THEN CHOOSE t \in Starts : t > s /\ \A u \in Starts : u > s => t <= u
                              ELSE Len(word) + 1
            Marked(s)    == IF byPosition THEN s > 1
                            ELSE \E t \in Starts : t < s /\ out[Idx(t)] # unkToken
        IN  /\ Len(out) = Cardinality(Starts)
            /\ \A s \in Starts :
                  LET ends == {e \in s..Len(word) : InVocab(Marked(s), SubSeq(word, s, e))}
                  IN  IF ends = {}
                        THEN NextStart(s) = s + 1 /\ out[Idx(s)] = unkToken
                        ELSE /\ NextStart(s) - 1 \in ends
                             /\ \A e \in ends : e <= NextStart(s) - 1
                             /\ out[Idx(s)] = VocabID(Marked(s), SubSeq(word, s, NextStart(s) - 1))

\* the call has returned and recorded the words of its first text
Tokenized == encoded # NoEncoding /\ "words" \in DOMAIN encoded

C28_LongTokenIsUnk ==
    Tokenized =>
        \A k \in 1..Len(encoded.words) :
            /\ Len(encoded.words[k]) > maxWordLen => encoded.pieces[k] = <<unkToken>>
            /\ Len(encoded.words[k]) <= maxWordLen =>
                  IsGreedy(encoded.words[k], encoded.pieces[k], TRUE)

(***************************************************************************)
(* SpecRuntime: goroutines of one process construct Embedders and a        *)
(* Reranker.  Each package has its own ortOnce; the body of a sync.Once    *)
(* runs once per Once value and other callers of the same Once wait for it.*)
(***************************************************************************)
\* the constructions: two of embedder.New and one of reranker.New
Ctors == {"e1", "e2", "r1"}
Pkg(c) == IF c = "r1" THEN "reranker" ELSE "embedder"

InitRuntime ==
    /\ documents = {}
    /\ chunks = {}
    /\ docSeq = 0
    /\ chunkSeq = 0
    /\ deleted = {}
    /\ pc = "idle"
    /\ loc = NoLoc
    /\ ret = [op |-> "none"]
    /\ hasReranker = FALSE
    /\ result = [op |-> "none"]
    /\ w = <<>>
    /\ ctxDone = FALSE
    /\ texts = <<>>
    /\ encoded = NoEncoding
    /\ ort = NoRuntime
    /\ ctor = [c \in Ctors |-> [pc |-> "once", err |-> FALSE]]

storeVars == <<documents, chunks, docSeq, chunkSeq>>

\* ortOnce.Do(...): the first caller of a package's Once runs the body, a
\* caller that finds it done goes on, a caller that finds it running waits
OnceDo(c) ==
    /\ ctor[c].pc = "once"
    /\ ort.once[Pkg(c)] # "running"
    /\ IF ort.once[Pkg(c)] = "new"
         THEN /\ ort' = [ort EXCEPT !.once[Pkg(c)] = "running"]
              /\ ctor' = [ctor EXCEPT ![c].pc = "init"]
         ELSE /\ ctor' = [ctor EXCEPT ![c].pc = "after"]
              /\ UNCHANGED ort
    /\ UNCHANGED <<storeVars, apiVars, svcVars, idxVars, tokVars>>

\* the body of the Once: ort.SetSharedLibraryPath and
\* ort.InitializeEnvironment; the embedder keeps the error in ortInitErr,
\* the reranker drops it.  What the library returns (a missing library, an
\* environment that exists already) is its own matter: either outcome.
InitializeEnvironment(c) ==
    /\ ctor[c].pc = "init"
    /\ \E err \in BOOLEAN :
         ort' = [ort EXCEPT !.inits = @ + 1,
                            !.initialized = @ \/ ~err,
                            !.ortInitErr = IF Pkg(c) = "embedder" THEN err ELSE @,
                            !.once[Pkg(c)] = "done"]
    /\ ctor' = [ctor EXCEPT ![c].pc = "after"]
    /\ UNCHANGED <<storeVars, apiVars, svcVars, idxVars, tokVars>>

\* embedder.New: if ortInitErr != nil return the error; reranker.New goes on
CheckInitErr(c) ==
    /\ ctor[c].pc = "after"
    /\ ctor' = IF Pkg(c) = "embedder" /\ ort.ortInitErr
                 THEN [ctor EXCEPT ![c].pc = "done", ![c].err = TRUE]
                 ELSE [ctor EXCEPT ![c].pc = "vocab"]
    /\ UNCHANGED <<storeVars, apiVars, svcVars, idxVars, tokVars, ort>>

\* loadVocab(tokenizerPath)
LoadVocab(c) ==
    /\ ctor[c].pc = "vocab"
    /\ \E err \in BOOLEAN :
         ctor' = IF err THEN [ctor EXCEPT ![c].pc = "done", ![c].err = TRUE]
                 ELSE [ctor EXCEPT ![c].pc = "session"]
    /\ UNCHANGED <<storeVars, apiVars, svcVars, idxVars, tokVars, ort>>

\* ort.NewDynamicAdvancedSession: fails without an initialized environment
NewSession(c) ==
    /\ ctor[c].pc = "session"
    /\ \E err \in {~ort.initialized, TRUE} :
         /\ ort' = [ort EXCEPT !.sessions = IF err THEN @ ELSE @ + 1]
         /\ ctor' = [ctor EXCEPT ![c].pc = "done", ![c].err = err]
    /\ UNCHANGED <<storeVars, apiVars, svcVars, idxVars, tokVars>>

NextRuntime ==
    \/ \E c \in Ctors : OnceDo(c)
    \/ \E c \in Ctors : InitializeEnvironment(c)
    \/ \E c \in Ctors : CheckInitErr(c)
    \/ \E c \in Ctors : LoadVocab(c)
    \/ \E c \in Ctors : NewSession(c)

SpecRuntime == InitRuntime /\ [][NextRuntime]_vars

\* C29: across any interleaving of Embedder and Reranker constructions the
\* runtime environment initialization is executed at most once, and it has
\* completed - none is running - when a session is created.
C29_InitOnce ==
    /\ [](ort.inits <= 1)
    /\ [][ ort'.sessions > ort.sessions =>
             (ort.inits >= 1 /\ \A c \in Ctors : ctor[c].pc # "init") ]_vars

\* C30: every successful Service.Search returns min(effective limit, number
\* of searchable passages in the store) items, in every rerank mode and for
\* every candidate pool size.
C30_ItemCount ==
    (result.op = "Search" /\ ~result.err) =>
        Len(result.items) =
            Min(clamp(result.p.limit, MinLimit, MaxLimit, DefaultLimit), Cardinality(chunks))

====
